---- MODULE Spec2Model ----
(***************************************************************************)
(* USD->PEN exchange dashboard (src/currency.py).                          *)
(*                                                                         *)
(* The program is a Streamlit script: every render cycle runs the script   *)
(* top to bottom.  What survives between cycles is st.session_state, the   *)
(* widget values and the process-wide st.cache_data stores of the two      *)
(* fetch functions.  One browser session is modelled.  A cycle is modelled *)
(* as the sequence of script sections; widget interactions are taken       *)
(* between cycles.                                                         *)
(*                                                                         *)
(* Rates are integers (a rate in units of the last displayed decimal);     *)
(* means are kept as exact fractions num/den, so that "current < mean" is  *)
(* decided without rounding.  The score is kept in hundredths.             *)
(***************************************************************************)
EXTENDS Integers, Sequences, FiniteSets

\* ------------------------------------------------------------------ bounds
\* Rates: 1..MaxRate.
MaxRate == 3
\* Rates the feed quotes in a session: 1..MaxQuote.
MaxQuote == 2
\* Longest intraday/daily frame returned for the latest quote.
MaxRows == 1
\* Widget interactions in a session.
MaxInteractions == 2

\* ------------------------------------------------------- program constants
REFRESH_SECONDS == 60
\* (a TTL tied to the refresh cadence)
TTL_LATEST_AsCadence == REFRESH_SECONDS
TTL_LATEST == 15 * 60
TTL_HISTORY == 60 * 60
WindowOptions == {7, 30, 365}
DefaultWindow == 365
W_365 == 30
W_30 == 50
W_7 == 20
BUY_THRESHOLD == 50

\* A missing close in a downloaded frame (pandas NaN).
NaN == 0

Rates == 1..MaxRate

\* The instants at which the clock is observed (seconds since the session
\* opened): they straddle the 60 s cadence and both TTLs.
TimePoints == {0, 60, 900, 3600}

None == [has |-> FALSE]

\* ------------------------------------------------------------- pure helpers
\* ser.sum(): the halves are summed apart to keep the recursion shallow.
RECURSIVE Sum(_)
Sum(s) ==
    IF Len(s) = 0 THEN 0
    ELSE IF Len(s) = 1 THEN s[1]
    ELSE LET h == Len(s) \div 2
         IN  Sum(SubSeq(s, 1, h)) + Sum(SubSeq(s, h + 1, Len(s)))

\* df["Close"].dropna()
IsClose(x) == x # NaN
DropNa(s) == SelectSeq(s, IsClose)

\* (ser[:n], the first n entries)
Tail_n_Head(s, n) ==
    IF Len(s) <= n THEN s ELSE SubSeq(s, 1, n)

\* ser[-n:] : the last n entries (the whole series when it is shorter).
Tail_n(s, n) ==
    IF Len(s) <= n THEN s ELSE SubSeq(s, Len(s) - n + 1, Len(s))

\* ser.mean() of a non-empty series, as the exact fraction sum/count.
Mean(s) == [num |-> Sum(s), den |-> Len(s)]

\* float(current_rate) used in place of a mean.
AsAvg(r) == [num |-> r, den |-> 1]

\* current < avg, for avg = num/den with den > 0.
Below(current, avg) == current * avg.den < avg.num

\* utcnow().strftime("%Y-%m-%d %H:%M UTC"): the clock cut to whole minutes.
Strftime(t) == t \div 60

\* A frame of daily closes: the last 7 entries are c, the 23 before them b,
\* the older ones a.
Series(len, a, b, c) ==
    [i \in 1..len |-> IF i > len - 7 THEN c ELSE IF i > len - 30 THEN b ELSE a]

\* Frames yf.download may return for the latest quote.
LatestFrames ==
    UNION {[1..n -> (1..MaxQuote) \cup {NaN}] : n \in 0..MaxRows}

\* Lengths of the 365-day series the guidance is computed for.
HistLens == {0, 1, 6, 7, 8, 29, 30, 31, 364, 365}
GuidanceSeries ==
    {Series(l, a, b, c) : l \in HistLens, a \in Rates, b \in Rates, c \in Rates}

\* Lengths and shapes of the daily frames the feed returns in a session.
FeedLens == {0, 7, 40}
FeedShapes == {<<3, 1, 3>>}
HistoryFrames(days) ==
    {Series(l, sh[1], sh[2], sh[3]) : l \in {n \in FeedLens : n <= days}, sh \in FeedShapes}
        \cup {<<NaN>>}


\* ------------------------------------------------------------------- state
VARIABLES
    now,            \* the clock, seconds
    pc,             \* the script section to run next; "idle"/"error" between cycles
    manual,         \* the current cycle was started by "Refresh now"
    auto_refresh,   \* the "Auto-refresh (60s)" checkbox
    window,         \* the "History Window" selectbox (days)
    button,         \* "Refresh now" was clicked and not yet consumed
    session_state,  \* st.session_state: fx, loaded_at
    latest_cache,   \* st.cache_data store of fetch_latest_rate
    history_cache,  \* st.cache_data store of fetch_history, one entry per days
    current_rate, last_updated, series, hist365,
    avg7, avg30, avg365, score, recommendation,
    page,           \* the sections rendered so far in the current cycle
    calls,          \* the cached-function calls of the current cycle
    last_latest_call, \* when the feed was last asked for the latest quote
    prev,           \* the guidance of the previous completed cycle
    interactions    \* widget interactions so far

vars == <<now, pc, manual, auto_refresh, window, button, session_state,
          latest_cache, history_cache, current_rate, last_updated, series,
          hist365, avg7, avg30, avg365, score, recommendation, page, calls,
          last_latest_call, prev, interactions>>

widgets == <<auto_refresh, window>>
caches == <<latest_cache, history_cache>>
locals == <<current_rate, last_updated, series, hist365>>
guidance == <<avg7, avg30, avg365, score, recommendation>>

\* ------------------------------------------------------------ st.cache_data
\* (an entry served up to and including its ttl)
Fresh_Inclusive(entry, ttl, t) == entry.has /\ t - entry.fetchedAt <= ttl

\* An entry is served while it is younger than the ttl of its function.
Fresh(entry, ttl, t) == entry.has /\ t - entry.fetchedAt < ttl

Entry(value, t) == [has |-> TRUE, value |-> value, fetchedAt |-> t]

Call(fn, days, hit) == [fn |-> fn, days |-> days, hit |-> hit]

\* ---------------------------------------------------------------- the feed
\* fetch_latest_rate's body on the two frames the feed returns: the intraday
\* frame, the daily one when the intraday frame is empty; iloc[-1] raises on
\* an empty column.
FetchLatestRate(intraday, daily, t) ==
    LET df == IF intraday = <<>> THEN daily ELSE intraday
        closes == DropNa(df)
    IN  IF closes = <<>>
        THEN [ok |-> FALSE]
        ELSE [ok |-> TRUE,
              value |-> [has |-> TRUE, rate |-> closes[Len(closes)],
                         timestamp |-> Strftime(t)]]

\* What a call of fetch_latest_rate at time t can come to, over the frames
\* the feed may return.
LatestOutcomes(t) ==
    {FetchLatestRate(intraday, daily, t) :
        intraday \in LatestFrames, daily \in LatestFrames}

\* fetch_history's body on the frame the feed returns.
FetchHistory(frame) == DropNa(frame)

\* ------------------------------------------------------------------- Init
Init ==
    /\ now = 0
    /\ pc = "start"
    /\ manual = FALSE
    /\ auto_refresh = FALSE
    /\ window = DefaultWindow
    /\ button = FALSE
    /\ session_state = [fx |-> None, loaded_at |-> None]
    /\ latest_cache = None
    /\ history_cache = [d \in WindowOptions |-> None]
    /\ current_rate = 0
    /\ last_updated = 0
    /\ series = <<>>
    /\ hist365 = <<>>
    /\ avg7 = None
    /\ avg30 = None
    /\ avg365 = None
    /\ score = 0
    /\ recommendation = "none"
    /\ page = {}
    /\ calls = <<>>
    /\ last_latest_call = None
    /\ prev = None
    /\ interactions = 0

\* ------------------------------------------------------------- environment
Waiting == pc \in {"idle", "error"}

\* A widget interaction: taken between cycles, it starts a new run.
Interact ==
    /\ Waiting
    /\ interactions < MaxInteractions
    /\ interactions' = interactions + 1
    /\ pc' = "start"

\* Time passes: between cycles, and while the history is downloaded.
Tick ==
    /\ Waiting \/ pc = "chart"
    /\ \E t \in TimePoints : t > now /\ now' = t
    /\ UNCHANGED <<pc, manual, auto_refresh, window, button, session_state,
                   latest_cache, history_cache, current_rate, last_updated,
                   series, hist365, avg7, avg30, avg365, score, recommendation,
                   page, calls, last_latest_call, prev, interactions>>

\* The user toggles the auto-refresh checkbox: the script reruns.
ToggleAutoRefresh ==
    /\ Interact
    /\ auto_refresh' = ~auto_refresh
    /\ manual' = FALSE
    /\ UNCHANGED <<now, window, button, session_state, caches, locals, guidance,
                   page, calls, last_latest_call, prev>>

\* The user picks another history window: the script reruns.
SelectWindow ==
    /\ Interact
    /\ \E w \in WindowOptions \ {window} : window' = w
    /\ manual' = FALSE
    /\ UNCHANGED <<now, auto_refresh, button, session_state, caches, locals,
                   guidance, page, calls, last_latest_call, prev>>

\* The user clicks "Refresh now": the script reruns with the button set.
ClickRefreshNow ==
    /\ Interact
    /\ button' = TRUE
    /\ manual' = TRUE
    /\ UNCHANGED <<now, widgets, session_state, caches, locals, guidance,
                   page, calls, last_latest_call, prev>>


\* ------------------------------------------------------------- the script
\* Section 3, the sidebar.  A run starts with an empty page and a fresh
\* namespace.  In the run a click started, st.button returns True and
\* st.experimental_rerun() abandons the run for a new one, in which the
\* button returns False.
Sidebar ==
    /\ pc = "start"
    /\ page' = {"sidebar"}
    /\ calls' = <<>>
    /\ current_rate' = 0 /\ last_updated' = 0
    /\ series' = <<>> /\ hist365' = <<>>
    /\ avg7' = None /\ avg30' = None /\ avg365' = None
    /\ score' = 0 /\ recommendation' = "none"
    /\ button' = FALSE
    /\ pc' = IF button THEN "start" ELSE "load"
    /\ UNCHANGED <<now, manual, widgets, session_state, caches,
                   last_latest_call, prev, interactions>>

\* Section 4 when the guard holds and the cached quote is still fresh.
LoadFromCache ==
    /\ pc = "load"
    /\ auto_refresh \/ ~session_state.fx.has
    /\ Fresh(latest_cache, TTL_LATEST, now)
    /\ session_state' = [fx |-> latest_cache.value,
                         loaded_at |-> [has |-> TRUE, at |-> now]]
    /\ current_rate' = latest_cache.value.rate
    /\ last_updated' = latest_cache.value.timestamp
    /\ calls' = Append(calls, Call("fetch_latest_rate", 0, TRUE))
    /\ pc' = "rate"
    /\ UNCHANGED <<now, manual, widgets, button, caches, series, hist365,
                   guidance, page, last_latest_call, prev, interactions>>

\* (the quote held in the session shown when the feed fails)
FeedFailure_ServeHeld ==
    /\ pc' = IF session_state.fx.has THEN "rate" ELSE "error"
    /\ page' = IF session_state.fx.has THEN page ELSE page \cup {"exception"}
    /\ current_rate' = IF session_state.fx.has THEN session_state.fx.rate ELSE 0
    /\ last_updated' = IF session_state.fx.has THEN session_state.fx.timestamp ELSE 0
    /\ UNCHANGED <<latest_cache, session_state>>

\* fetch_latest_rate raises: the exception leaves line 90 before anything is
\* assigned, the run ends and the page shows the exception.
FeedFailure ==
    /\ pc' = "error"
    /\ page' = page \cup {"exception"}
    /\ UNCHANGED <<latest_cache, session_state, current_rate, last_updated>>

\* Section 4 when the guard holds and no fresh quote is cached: the feed is
\* asked.  A result is stored and put in the session; an exception ends the
\* run before either assignment.
LoadFromFeed ==
    /\ pc = "load"
    /\ auto_refresh \/ ~session_state.fx.has
    /\ ~Fresh(latest_cache, TTL_LATEST, now)
    /\ calls' = Append(calls, Call("fetch_latest_rate", 0, FALSE))
    /\ last_latest_call' = [has |-> TRUE, at |-> now]
    /\ \E r \in LatestOutcomes(now) :
         IF r.ok
         THEN /\ latest_cache' = Entry(r.value, now)
              /\ session_state' = [fx |-> r.value,
                                   loaded_at |-> [has |-> TRUE, at |-> now]]
              /\ current_rate' = r.value.rate
              /\ last_updated' = r.value.timestamp
              /\ pc' = "rate"
              /\ page' = page
         ELSE FeedFailure
    /\ UNCHANGED <<now, manual, widgets, button, history_cache, series,
                   hist365, guidance, prev, interactions>>

\* Section 4 when the guard fails: the quote held in the session is used.
LoadFromSession ==
    /\ pc = "load"
    /\ ~(auto_refresh \/ ~session_state.fx.has)
    /\ current_rate' = session_state.fx.rate
    /\ last_updated' = session_state.fx.timestamp
    /\ pc' = "rate"
    /\ UNCHANGED <<now, manual, widgets, button, session_state, caches,
                   series, hist365, guidance, page, calls, last_latest_call,
                   prev, interactions>>

\* Section 5: the current rate and the quick conversion.
RateSection ==
    /\ pc = "rate"
    /\ page' = page \cup {"rate", "conversion"}
    /\ pc' = "chart"
    /\ UNCHANGED <<now, manual, widgets, button, session_state, caches,
                   locals, guidance, calls, last_latest_call, prev, interactions>>

\* fetch_history(days) through its cache: the value returned, the store
\* afterwards and whether the entry was served, for the frame the feed
\* would return.
CachedHistory(days, frame) ==
    IF Fresh(history_cache[days], TTL_HISTORY, now)
    THEN [value |-> history_cache[days].value, store |-> history_cache,
          hit |-> TRUE]
    ELSE [value |-> FetchHistory(frame),
          store |-> [history_cache EXCEPT ![days] = Entry(FetchHistory(frame), now)],
          hit |-> FALSE]

\* Section 6: the chart of the selected window, or the "no data" notice.
Chart ==
    /\ pc = "chart"
    /\ \E frame \in HistoryFrames(window) :
         LET r == CachedHistory(window, frame) IN
         /\ series' = r.value
         /\ history_cache' = r.store
         /\ calls' = Append(calls, Call("fetch_history", window, r.hit))
         /\ page' = page \cup {IF r.value # <<>> THEN "chart" ELSE "nodata"}
    /\ pc' = "hist365"
    /\ UNCHANGED <<now, manual, widgets, button, session_state, latest_cache,
                   current_rate, last_updated, hist365, guidance,
                   last_latest_call, prev, interactions>>

\* Section 7, first line: hist365 = fetch_history(365).
FetchHist365 ==
    /\ pc = "hist365"
    /\ \E frame \in HistoryFrames(365) :
         LET r == CachedHistory(365, frame) IN
         /\ hist365' = r.value
         /\ history_cache' = r.store
         /\ calls' = Append(calls, Call("fetch_history", 365, r.hit))
    /\ pc' = "averages"
    /\ UNCHANGED <<now, manual, widgets, button, session_state, latest_cache,
                   current_rate, last_updated, series, guidance, page,
                   last_latest_call, prev, interactions>>

\* (the 30-day average guarded like the 365-day one)
Avg30_AnyLength(hist, current) ==
    IF Len(hist) >= 1 THEN Mean(Tail_n(hist, 30)) ELSE AsAvg(current)

\* (the 365-day average without its guard)
Avg365_Unguarded(hist, current) == Mean(hist)

\* The three averages of section 7.
Avg7(hist, current) ==
    IF Len(hist) >= 7 THEN Mean(Tail_n(hist, 7)) ELSE AsAvg(current)
Avg30(hist, current) ==
    IF Len(hist) >= 30 THEN Mean(Tail_n(hist, 30)) ELSE AsAvg(current)
Avg365(hist, current) ==
    IF Len(hist) >= 1 THEN Mean(hist) ELSE AsAvg(current)

\* (the averages taken from the chart's series)
AveragesSource_Chart == series

\* The series the averages are taken from.
AveragesSource == hist365

\* Section 7: the averages and their KPI cards.
Averages ==
    /\ pc = "averages"
    /\ avg7' = Avg7(AveragesSource, current_rate)
    /\ avg30' = Avg30(AveragesSource, current_rate)
    /\ avg365' = Avg365(AveragesSource, current_rate)
    /\ page' = page \cup {"averages"}
    /\ pc' = "guidance"
    /\ UNCHANGED <<now, manual, widgets, button, session_state, caches,
                   locals, score, recommendation, calls, last_latest_call,
                   prev, interactions>>

\* The weighted score, in hundredths.
Score(current, a7, a30, a365) ==
    (IF Below(current, a365) THEN W_365 ELSE 0)
  + (IF Below(current, a30) THEN W_30 ELSE 0)
  + (IF Below(current, a7) THEN W_7 ELSE 0)

\* (BUY from the threshold on)
Recommendation_Inclusive(sc) ==
    IF sc >= BUY_THRESHOLD THEN "BUY" ELSE "WAIT/SELL"

Recommendation(sc) == IF sc > BUY_THRESHOLD THEN "BUY" ELSE "WAIT/SELL"

\* Section 7: the score and the recommendation banner.
Guidance ==
    /\ pc = "guidance"
    /\ score' = Score(current_rate, avg7, avg30, avg365)
    /\ recommendation' = Recommendation(score')
    /\ page' = page \cup {"recommendation"}
    /\ prev' = [has |-> TRUE, window |-> window, current_rate |-> current_rate,
                hist365 |-> hist365, avg7 |-> avg7, avg30 |-> avg30,
                avg365 |-> avg365, score |-> score',
                recommendation |-> recommendation']
    /\ pc' = "timer"
    /\ UNCHANGED <<now, manual, widgets, button, session_state, caches,
                   locals, avg7, avg30, avg365, calls, last_latest_call, interactions>>

Max(a, b) == IF a >= b THEN a ELSE b

\* remaining = max(0, 60 - elapsed)
Remaining == Max(0, REFRESH_SECONDS - (now - session_state.loaded_at.at))

\* Section 8: with auto-refresh on, the progress bar; when less than a
\* second remains, a one second sleep and a rerun.
Timer ==
    /\ pc = "timer"
    /\ IF auto_refresh
       THEN /\ page' = page \cup {"timer"}
            /\ IF Remaining < 1
               THEN /\ now' = now + 1
                    /\ pc' = "start"
                    /\ manual' = FALSE
               ELSE /\ pc' = "footer"
                    /\ UNCHANGED <<now, manual>>
       ELSE /\ pc' = "footer"
            /\ UNCHANGED <<now, manual, page>>
    /\ UNCHANGED <<widgets, button, session_state, caches, locals, guidance,
                   calls, last_latest_call, prev, interactions>>

\* Section 9: the footer; the run ends and the session waits for the user.
Footer ==
    /\ pc = "footer"
    /\ page' = page \cup {"footer"}
    /\ pc' = "idle"
    /\ manual' = FALSE
    /\ calls' = <<>>
    /\ UNCHANGED <<now, widgets, button, session_state, caches,
                   locals, guidance, last_latest_call, prev, interactions>>

\* -------------------------------------------------------------- the system
Next ==
    \/ Tick
    \/ ToggleAutoRefresh
    \/ SelectWindow
    \/ ClickRefreshNow
    \/ Sidebar
    \/ LoadFromCache
    \/ LoadFromFeed
    \/ LoadFromSession
    \/ RateSection
    \/ Chart
    \/ FetchHist365
    \/ Averages
    \/ Guidance
    \/ Timer
    \/ Footer

Spec == Init /\ [][Next]_vars

\* The steps of a run of the script.
Script ==
    \/ Sidebar
    \/ LoadFromCache
    \/ LoadFromFeed
    \/ LoadFromSession
    \/ RateSection
    \/ Chart
    \/ FetchHist365
    \/ Averages
    \/ Guidance
    \/ Timer
    \/ Footer

\* A started run goes on to its end and time goes by; nothing makes the user
\* act.
FairSpec == Spec /\ WF_vars(Script) /\ WF_vars(Tick)


\* ----------------------------------------------- the guidance computation
\* The averages and the score as a computation of their inputs: the script
\* stands before section 7's averages, in its first cycle, with any current
\* rate and any 365-day series.
InitGuidance ==
    /\ now = 0
    /\ pc = "averages"
    /\ manual = FALSE
    /\ auto_refresh = FALSE
    /\ window = DefaultWindow
    /\ button = FALSE
    /\ \E r \in Rates, h \in GuidanceSeries :
         LET fx == [has |-> TRUE, rate |-> r, timestamp |-> Strftime(0)] IN
         /\ session_state = [fx |-> fx, loaded_at |-> [has |-> TRUE, at |-> 0]]
         /\ latest_cache = Entry(fx, 0)
         /\ history_cache = [d \in WindowOptions |->
                               IF d = DefaultWindow THEN Entry(h, 0) ELSE None]
         /\ current_rate = r
         /\ last_updated = Strftime(0)
         /\ series = h
         /\ hist365 = h
         /\ page = {"sidebar", "rate", "conversion",
                    IF h # <<>> THEN "chart" ELSE "nodata"}
    /\ avg7 = None
    /\ avg30 = None
    /\ avg365 = None
    /\ score = 0
    /\ recommendation = "none"
    /\ calls = <<Call("fetch_latest_rate", 0, FALSE),
                 Call("fetch_history", DefaultWindow, FALSE),
                 Call("fetch_history", 365, TRUE)>>
    /\ last_latest_call = [has |-> TRUE, at |-> 0]
    /\ prev = None
    /\ interactions = 0

NextGuidance ==
    \/ Averages
    \/ Guidance

SpecGuidance == InitGuidance /\ [][NextGuidance]_vars

\* ------------------------------------------------------------- properties
\* The last n entries of a series of at least n entries.
LastN(s, n) == SubSeq(s, Len(s) - n + 1, Len(s))

\* The fraction avg equals num/den.
IsFraction(avg, num, den) == avg.num * den = num * avg.den

\* The averages of the current cycle have been computed.
AveragesDone == pc \in {"guidance", "timer", "footer", "idle"}

\* The score and the recommendation of the current cycle have been computed.
GuidanceDone == pc \in {"timer", "footer", "idle"}

\* The N-day average is the mean of exactly the last N entries when the
\* 365-day series has N entries, and the current rate otherwise.
RollingOrFallback(avg, n) ==
    IF Len(hist365) >= n
    THEN IsFraction(avg, Sum(LastN(hist365, n)), n)
    ELSE avg = [num |-> current_rate, den |-> 1]

\* C4, as claimed: for each window N in {7, 30, 365}, the N-day average is
\* the mean of exactly the last N entries of the series when it has at least
\* N entries, and the current rate when it has fewer.
C4_AsClaimed ==
    AveragesDone =>
        /\ RollingOrFallback(avg7, 7)
        /\ RollingOrFallback(avg30, 30)
        /\ RollingOrFallback(avg365, 365)

\* C4, amended: the 7- and 30-day averages are as claimed; the 365-day
\* average is the mean of all the entries of the series (at most 365)
\* whenever the series has at least one entry, and the current rate only
\* when the series is empty.
C4_Averages ==
    AveragesDone =>
        /\ RollingOrFallback(avg7, 7)
        /\ RollingOrFallback(avg30, 30)
        /\ Len(hist365) <= 365
        /\ IF Len(hist365) >= 1
           THEN IsFraction(avg365, Sum(hist365), Len(hist365))
           ELSE avg365 = [num |-> current_rate, den |-> 1]

\* A series of 29 entries: a 7-day mean, the 30-day fallback, and a 365-day
\* average that is the mean of the 29 entries and not the current rate.
C4_Witness ==
    /\ pc = "guidance"
    /\ Len(hist365) = 29
    /\ avg7.den = 7
    /\ avg30 = [num |-> current_rate, den |-> 1]
    /\ avg365.den = 29
    /\ avg365.num # 29 * current_rate

\* C5: the score is the sum of 0.30 if current < avg365, 0.50 if
\* current < avg30 and 0.20 if current < avg7, so one of 0, 0.20, 0.30,
\* 0.50, 0.70, 0.80, 1.00; the recommendation is BUY exactly when the score
\* is above 0.50, so a score of 0.50 gives WAIT/SELL.
C5_ScoreAndRecommendation ==
    GuidanceDone =>
        /\ score = (IF current_rate * avg365.den < avg365.num THEN 30 ELSE 0)
                 + (IF current_rate * avg30.den < avg30.num THEN 50 ELSE 0)
                 + (IF current_rate * avg7.den < avg7.num THEN 20 ELSE 0)
        /\ score \in {0, 20, 30, 50, 70, 80, 100}
        /\ (recommendation = "BUY") <=> (score > 50)
        /\ recommendation \in {"BUY", "WAIT/SELL"}
        /\ score = 50 => recommendation = "WAIT/SELL"

\* A score of exactly 0.50 made of 0.30 + 0.20: the current rate is below
\* the 365-day and the 7-day averages and not below the 30-day one.
C5_Witness ==
    /\ pc = "timer"
    /\ score = 50
    /\ current_rate * avg365.den < avg365.num
    /\ current_rate * avg7.den < avg7.num
    /\ ~(current_rate * avg30.den < avg30.num)
    /\ recommendation = "WAIT/SELL"

\* The other score of exactly 0.50: below the 30-day average alone.
C5_WitnessAvg30Alone ==
    /\ pc = "timer"
    /\ score = 50
    /\ current_rate * avg30.den < avg30.num
    /\ recommendation = "WAIT/SELL"

\* C10: whenever the 365-day series has fewer than 30 entries, the 30-day
\* average is the current rate, the score is at most 0.50 and the
\* recommendation is WAIT/SELL; BUY needs at least 30 entries.
C10_ShortHistoryNeverBuys ==
    /\ AveragesDone /\ Len(hist365) < 30 =>
           avg30 = [num |-> current_rate, den |-> 1]
    /\ GuidanceDone /\ Len(hist365) < 30 =>
           score <= 50 /\ recommendation = "WAIT/SELL"
    /\ GuidanceDone /\ recommendation = "BUY" => Len(hist365) >= 30

\* 29 entries, all above the current rate: the 365-day and 7-day indicators
\* both fire, the score stops at 0.50 and the recommendation is WAIT/SELL.
C10_Witness ==
    /\ pc = "timer"
    /\ Len(hist365) = 29
    /\ \A i \in 1..29 : hist365[i] > current_rate
    /\ score = 50
    /\ recommendation = "WAIT/SELL"


\* The cached-function call made by the step, if it made one.
MadeCall == Len(calls') = Len(calls) + 1
TheCall == calls'[Len(calls')]

\* The step is a run of section 4 (it leaves pc = "load").
LoadStep == pc = "load" /\ pc' # "load"

At(t) == [has |-> TRUE, at |-> t]

\* C1, as claimed: a cycle started by "Refresh now" while a quote is held
\* calls the latest-quote load path and sets loaded_at to now, whether or
\* not auto-refresh is enabled.
C1_ManualRefreshLoads ==
    [][LoadStep /\ manual /\ session_state.fx.has =>
          /\ MadeCall /\ TheCall.fn = "fetch_latest_rate"
          /\ pc' # "error" => session_state'.loaded_at = At(now)]_vars

\* C2, as claimed: with auto-refresh enabled and the session idle, once 60
\* seconds have passed since loaded_at a new cycle starts by itself.
C2_AutoRefreshRecurs ==
    [](auto_refresh /\ pc = "idle" /\ now - session_state.loaded_at.at >= 60
          => <>(pc = "start"))

\* C3, the part that holds of every call: a call of fetch_latest_rate less
\* than 15 minutes, or of fetch_history(days) less than 60 minutes, after
\* the entry of its key was fetched does not ask the feed, leaves the store
\* as it is and returns the entry's value; any other call asks the feed, and
\* no call touches the entry of another key.
C3_ServedWithinTtl ==
    /\ MadeCall /\ TheCall.fn = "fetch_latest_rate" =>
         /\ history_cache' = history_cache
         /\ IF latest_cache.has /\ now - latest_cache.fetchedAt < 900
            THEN /\ TheCall.hit
                 /\ last_latest_call' = last_latest_call
                 /\ latest_cache' = latest_cache
                 /\ session_state'.fx = latest_cache.value
            ELSE /\ ~TheCall.hit
                 /\ last_latest_call' = At(now)
    /\ MadeCall /\ TheCall.fn = "fetch_history" =>
         LET d == TheCall.days
             returned == IF pc = "chart" THEN series' ELSE hist365'
         IN  /\ latest_cache' = latest_cache
             /\ \A k \in {7, 30, 365} \ {d} : history_cache'[k] = history_cache[k]
             /\ IF history_cache[d].has /\ now - history_cache[d].fetchedAt < 3600
                THEN /\ TheCall.hit
                     /\ history_cache' = history_cache
                     /\ returned = history_cache[d].value
                ELSE ~TheCall.hit

\* A call at or after the fetch time plus the TTL stores a new entry,
\* fetched now, and returns its value.
C3_ReplacedAfterTtl ==
    /\ MadeCall /\ TheCall.fn = "fetch_latest_rate"
           /\ latest_cache.has /\ now - latest_cache.fetchedAt >= 900 =>
         /\ latest_cache'.has /\ latest_cache'.fetchedAt = now
         /\ session_state'.fx = latest_cache'.value
    /\ MadeCall /\ TheCall.fn = "fetch_history"
           /\ history_cache[TheCall.days].has
           /\ now - history_cache[TheCall.days].fetchedAt >= 3600 =>
         /\ history_cache'[TheCall.days].has
         /\ history_cache'[TheCall.days].fetchedAt = now
         /\ (IF pc = "chart" THEN series' ELSE hist365')
                = history_cache'[TheCall.days].value

\* C3, as claimed: within the TTL the entry is served and the feed is not
\* asked; at or after the TTL the feed is asked again and the entry is
\* replaced.
C3_AsClaimed == [][C3_ServedWithinTtl /\ C3_ReplacedAfterTtl]_vars

\* C3, amended: as claimed, except that a call at or after the TTL replaces
\* the entry only when the feed returns a value; when fetch_latest_rate
\* raises, nothing is stored and the run fails.
C3_CacheTtl ==
    [][/\ C3_ServedWithinTtl
       /\ (pc' # "error" => C3_ReplacedAfterTtl)
       /\ (pc' = "error" /\ pc # "error" =>
              /\ MadeCall /\ TheCall.fn = "fetch_latest_rate" /\ ~TheCall.hit
              /\ latest_cache' = latest_cache)]_vars

\* Every key has an expired entry that was replaced and, later, a served
\* one: the session is idle after a cycle that served the quote and both
\* histories from entries stored after the first ones expired.
C3_Witness ==
    /\ pc = "footer"
    /\ window = 7
    /\ calls = <<Call("fetch_latest_rate", 0, TRUE),
                 Call("fetch_history", 7, TRUE),
                 Call("fetch_history", 365, TRUE)>>
    /\ latest_cache.fetchedAt >= 900
    /\ history_cache[7].fetchedAt >= 3600
    /\ history_cache[365].fetchedAt >= 3600


\* The sections that show a rate or something computed from one.
RateSections == {"rate", "conversion", "chart", "averages", "recommendation"}

\* C6: when the feed fails in a cycle that asks it for the latest quote, the
\* cycle ends there: neither the expired entry nor the quote held in the
\* session is shown, and the session's quote and loaded_at stay as they
\* were; loaded_at is recorded only when a quote was loaded.
C6_FeedFailureIsFatal ==
    [][/\ LoadStep /\ MadeCall /\ ~TheCall.hit =>
            \/ /\ pc' = "rate"
               /\ latest_cache'.has /\ latest_cache'.fetchedAt = now
               /\ session_state' = [fx |-> latest_cache'.value,
                                    loaded_at |-> At(now)]
            \/ /\ pc' = "error"
               /\ session_state' = session_state
               /\ latest_cache' = latest_cache
               /\ page' \cap RateSections = {}
               /\ "exception" \in page'
       /\ pc = "error" => page' \cap RateSections = {}
       /\ session_state'.loaded_at # session_state.loaded_at =>
            /\ LoadStep /\ pc' = "rate" /\ MadeCall
            /\ session_state'.loaded_at = At(now)]_vars

\* The feed failed while an expired entry was cached and a quote was held.
C6_Witness ==
    /\ pc = "error"
    /\ "exception" \in page
    /\ session_state.fx.has
    /\ latest_cache.has
    /\ now - latest_cache.fetchedAt >= 900
    /\ session_state.loaded_at.at < now

\* C7: when the series of the selected window is empty the cycle does not
\* fail: the "no data" notice stands in for the chart, and the rate, the
\* conversion, the averages, the recommendation and (with auto-refresh on)
\* the timer are rendered in the same cycle; when the 365-day series is
\* empty the three averages are the current rate.
C7_EmptyHistoryIsRecoverable ==
    /\ "nodata" \in page =>
         /\ pc # "error"
         /\ "chart" \notin page
         /\ series = <<>>
         /\ {"rate", "conversion"} \subseteq page
    /\ "nodata" \in page /\ pc \in {"footer", "idle"} =>
         /\ {"rate", "conversion", "averages", "recommendation"} \subseteq page
         /\ auto_refresh => "timer" \in page
    /\ "chart" \in page => series # <<>> /\ "nodata" \notin page
    /\ AveragesDone /\ hist365 = <<>> =>
         /\ avg7 = [num |-> current_rate, den |-> 1]
         /\ avg30 = [num |-> current_rate, den |-> 1]
         /\ avg365 = [num |-> current_rate, den |-> 1]

\* A completed cycle with auto-refresh on, the 7-day window selected and
\* both the chart series and the 365-day series empty.
C7_Witness ==
    /\ pc = "idle"
    /\ window = 7
    /\ auto_refresh
    /\ "nodata" \in page
    /\ hist365 = <<>>
    /\ {"rate", "conversion", "averages", "recommendation", "timer",
        "footer"} \subseteq page
    /\ recommendation = "WAIT/SELL"

\* The step refreshes the latest quote outside a cold start.
RefreshStep ==
    LoadStep /\ MadeCall /\ TheCall.fn = "fetch_latest_rate"
        /\ session_state.fx.has

\* C8, as claimed: a refresh of the latest quote (cold start excluded) less
\* than 15 minutes after the feed was last asked for the latest quote does
\* not ask the feed and leaves the rate and its timestamp as they were; the
\* quote changes only in a cycle where the TTL has elapsed.
C8_AsClaimed ==
    [][/\ RefreshStep /\ last_latest_call.has
              /\ now - last_latest_call.at < 900 =>
            /\ last_latest_call' = last_latest_call
            /\ session_state'.fx = session_state.fx
            /\ current_rate' = session_state.fx.rate
            /\ last_updated' = session_state.fx.timestamp
       /\ session_state.fx.has /\ session_state'.fx # session_state.fx =>
            now - last_latest_call.at >= 900]_vars

\* C8, amended: the 15 minutes count from the fetch time of the cached
\* quote, the last time the feed returned one; a feed call that failed
\* caches nothing and the next refresh asks the feed again.
C8_RefreshWithinTtlIsNoOp ==
    [][/\ RefreshStep /\ latest_cache.has
              /\ now - latest_cache.fetchedAt < 900 =>
            /\ last_latest_call' = last_latest_call
            /\ TheCall.hit
            /\ session_state'.fx = session_state.fx
            /\ current_rate' = session_state.fx.rate
            /\ last_updated' = session_state.fx.timestamp
       /\ session_state.fx.has /\ session_state'.fx # session_state.fx =>
            /\ latest_cache.has
            /\ now - latest_cache.fetchedAt >= 900
            /\ last_latest_call' = At(now)]_vars

\* A refresh one minute after the quote was fetched: loaded_at moves, the
\* quote and its timestamp do not.
C8_Witness ==
    /\ pc = "rate"
    /\ calls = <<Call("fetch_latest_rate", 0, TRUE)>>
    /\ session_state.loaded_at = At(60)
    /\ latest_cache.fetchedAt = 0
    /\ last_latest_call = At(0)
    /\ session_state.fx = latest_cache.value
    /\ last_updated = Strftime(0)

\* C9: the three averages come from the 365-day series, never from the
\* chart's: a cycle with the same current rate and the same 365-day series
\* as the cycle before has the same averages, score and recommendation,
\* whatever window is selected; selecting a window changes nothing else.
C9_WindowLeavesGuidance ==
    [][/\ pc = "guidance" /\ pc' = "timer" /\ prev.has
              /\ prev.current_rate = current_rate
              /\ prev.hist365 = hist365 =>
            /\ avg7 = prev.avg7
            /\ avg30 = prev.avg30
            /\ avg365 = prev.avg365
            /\ score' = prev.score
            /\ recommendation' = prev.recommendation
       /\ window' # window =>
            UNCHANGED <<session_state, caches, locals, guidance, now>>]_vars

\* The window went from 365 to 7 days: the chart series is empty, the
\* 365-day series and the current rate are those of the cycle before, and
\* so are the averages just computed.
C9_Witness ==
    /\ pc = "guidance"
    /\ window = 7
    /\ prev.has /\ prev.window = 365
    /\ series = <<>>
    /\ Len(hist365) >= 7
    /\ prev.hist365 = hist365
    /\ prev.current_rate = current_rate
    /\ avg7.den = 7
    /\ avg7 = prev.avg7 /\ avg30 = prev.avg30 /\ avg365 = prev.avg365

====
